---- MODULE Spec2Model ----
(***************************************************************************)
(* One turn processor of the chat assistant, packages/mastrogpt/chat/      *)
(* chat.py: chat(args) and its socket helpers, as a state machine.  A      *)
(* caller invokes chat() turn after turn, feeding back the state a turn    *)
(* returned.  The environment decides whether the side-channel connect     *)
(* and each sendall succeed, whether the upstream request succeeds and     *)
(* which line the upstream body yields next.                               *)
(*                                                                         *)
(* Python text is a TLA+ string (TLC evaluates Len, SubSeq, Head, Tail     *)
(* and \o on strings).  A Python value whose type matters is a tagged      *)
(* record: [t |-> "str", s |-> ..], [t |-> "int", n |-> ..],               *)
(* [t |-> "none"], [t |-> "list", l |-> ..], [t |-> "dict", d |-> ..].     *)
(* A dict's d is a function from its keys; a state dict holds model (a     *)
(* tagged value) and history (a sequence of [role, content] messages).     *)
(***************************************************************************)
EXTENDS Integers, Sequences, FiniteSets, TLC

\* ------------------------------------------------------------------ bounds
MaxTurns == 2
MaxLines == 3
MaxHistory == 3

\* ----------------------------------------------------------- configuration
DEFAULT_MODEL == "openai/gpt-oss-120b:free"

STATIC_MODELS ==
  << "moonshotai/kimi-k2",
     "deepseek/deepseek-chat-v3.1",
     "qwen/qwen3-coder",
     "openai/gpt-oss-120b",
     "openai/gpt-oss-20b",
     "openchat/openchat-7b",
     "openai/gpt-5",
     "mistralai/mistral-7b-instruct",
     "deepseek/deepseek-chat-v3.1:free",
     "openai/gpt-oss-120b:free" >>

chunk_size == 10

\* STATIC_MODELS as configured, and as edited to hold an entry twice in
\* different casing.
Catalogs ==
  { STATIC_MODELS,
    << "openai/gpt-5", "OpenAI/GPT-5", "qwen/qwen3-coder" >> }

\* ------------------------------------------------------------ Python values
PyStr(s)  == [t |-> "str", s |-> s]
PyInt(n)  == [t |-> "int", n |-> n]
PyNone    == [t |-> "none"]
PyList(l) == [t |-> "list", l |-> l]
PyDict(d) == [t |-> "dict", d |-> d]

EmptyDict == [k \in {} |-> PyNone]

\* str(v) of a value, as the f-strings of chat() format it.
Str(v) ==
  CASE v.t = "str"  -> v.s
    [] v.t = "int"  -> IF v.n = 5 THEN "5" ELSE "0"
    [] v.t = "none" -> "None"
    [] OTHER        -> "?"

Whitespace == {" ", "\n", "\t"}

RECURSIVE LStrip(_)
LStrip(s) ==
  IF s # "" /\ Head(s) \in Whitespace THEN LStrip(Tail(s)) ELSE s

RECURSIVE RStrip(_)
RStrip(s) ==
  IF s # "" /\ SubSeq(s, Len(s), Len(s)) \in Whitespace
  THEN RStrip(SubSeq(s, 1, Len(s) - 1))
  ELSE s

\* The text taken as it came.
Strip_asis(s) == s

\* str.strip()
Strip(s) == RStrip(LStrip(s))

\* str.startswith(p)
StartsWith(s, p) == Len(s) >= Len(p) /\ SubSeq(s, 1, Len(p)) = p

LowerChar(c) ==
  CASE c = "A" -> "a" [] c = "B" -> "b" [] c = "C" -> "c" [] c = "D" -> "d"
    [] c = "E" -> "e" [] c = "F" -> "f" [] c = "G" -> "g" [] c = "H" -> "h"
    [] c = "I" -> "i" [] c = "J" -> "j" [] c = "K" -> "k" [] c = "L" -> "l"
    [] c = "M" -> "m" [] c = "N" -> "n" [] c = "O" -> "o" [] c = "P" -> "p"
    [] c = "Q" -> "q" [] c = "R" -> "r" [] c = "S" -> "s" [] c = "T" -> "t"
    [] c = "U" -> "u" [] c = "V" -> "v" [] c = "W" -> "w" [] c = "X" -> "x"
    [] c = "Y" -> "y" [] c = "Z" -> "z" [] OTHER -> c

\* str.lower()
RECURSIVE Lower(_)
Lower(s) == IF s = "" THEN "" ELSE LowerChar(Head(s)) \o Lower(Tail(s))

\* "\n".join(seq)
RECURSIVE JoinLines(_)
JoinLines(seq) ==
  IF seq = <<>> THEN ""
  ELSE IF Len(seq) = 1 THEN seq[1]
  ELSE seq[1] \o "\n" \o JoinLines(Tail(seq))

\* A catalog entry selected by any text it starts with.
RECURSIVE MatchModels_startswith(_, _)
MatchModels_startswith(seq, prefix) ==
  IF seq = <<>> THEN <<>>
  ELSE IF StartsWith(Lower(seq[1]), prefix)
       THEN <<seq[1]>> \o MatchModels_startswith(Tail(seq), prefix)
       ELSE MatchModels_startswith(Tail(seq), prefix)

\* [x for x in seq if x.lower() == prefix]
RECURSIVE MatchModels(_, _)
MatchModels(seq, prefix) ==
  IF seq = <<>> THEN <<>>
  ELSE IF Lower(seq[1]) = prefix
       THEN <<seq[1]>> \o MatchModels(Tail(seq), prefix)
       ELSE MatchModels(Tail(seq), prefix)

\* --------------------------------------------------------------- json.loads
\* The documents a caller or the upstream can send, with what json.loads
\* makes of each; any other text raises JSONDecodeError.
Delta(d) == PyDict([choices |-> PyList(<< PyDict([delta |-> PyDict(d)]) >>)])

json_loads(s) ==
  CASE s = "{}" -> [ok |-> TRUE, val |-> PyDict(EmptyDict)]
    [] s = "{\"model\": \"openai/gpt-5\", \"history\": []}" ->
         [ok |-> TRUE,
          val |-> PyDict([model |-> PyStr("openai/gpt-5"), history |-> <<>>])]
    [] s = "[1]"  -> [ok |-> TRUE, val |-> PyList(<<PyInt(1)>>)]
    [] s = "5"    -> [ok |-> TRUE, val |-> PyInt(5)]
    [] s = "null" -> [ok |-> TRUE, val |-> PyNone]
    [] s = "{\"choices\":[{\"delta\":{\"content\":\"Hel\"}}]}" ->
         [ok |-> TRUE, val |-> Delta([content |-> PyStr("Hel")])]
    [] s = "{\"choices\":[{\"delta\":{\"content\":\"lo\"}}]}" ->
         [ok |-> TRUE, val |-> Delta([content |-> PyStr("lo")])]
    [] s = "{\"choices\":[{\"delta\":{\"content\":\"\"}}]}" ->
         [ok |-> TRUE, val |-> Delta([content |-> PyStr("")])]
    [] s = "{\"choices\":[{\"delta\":{\"content\":null}}]}" ->
         [ok |-> TRUE, val |-> Delta([content |-> PyNone])]
    [] s = "{\"choices\":[{\"delta\":{\"role\":\"assistant\"}}]}" ->
         [ok |-> TRUE, val |-> Delta([role |-> PyStr("assistant")])]
    [] s = "{\"choices\":[]}" ->
         [ok |-> TRUE, val |-> PyDict([choices |-> PyList(<<>>)])]
    [] OTHER -> [ok |-> FALSE, val |-> PyNone]

\* ------------------------------------------------------------------- inputs
Absent == [t |-> "absent"]

Msg(role, content) == [role |-> role, content |-> content]

PriorHistory == << Msg("user", "q"), Msg("assistant", "a") >>

\* args["state"] as callers supply it on the first turn.
CallerStates ==
  { Absent,
    PyDict([model |-> PyStr("openai/gpt-5")]),
    PyDict([model |-> PyStr(""), history |-> <<>>]),
    PyDict([model |-> PyInt(5), history |-> <<>>]),
    PyDict([history |-> PriorHistory]),
    PyStr("{\"model\": \"openai/gpt-5\", \"history\": []}"),
    PyStr("not json"),
    PyStr("[1]"),
    PyStr("5"),
    PyStr("null"),
    PyNone }

\* args["input"]
Inputs == { "", " \n", "@", "@zzz", "@qwen", "@OpenAI/GPT-5", " hi " }

\* args["STREAM_HOST"], args["STREAM_PORT"]
SockConfigs ==
  { [STREAM_HOST |-> "", STREAM_PORT |-> 0],
    [STREAM_HOST |-> " 127.0.0.1", STREAM_PORT |-> 9000] }

\* Lines the upstream body can yield (response.iter_lines).
UpstreamLines ==
  { "",
    ": OPENROUTER PROCESSING",
    "data: [DONE]",
    "data: {\"choices\":[{\"delta\":{\"content\":\"Hel\"}}]}",
    "data: {\"choices\":[{\"delta\":{\"content\":\"lo\"}}]}",
    "data: {\"choices\":[{\"delta\":{\"content\":\"\"}}]}",
    "data: {\"choices\":[{\"delta\":{\"content\":null}}]}",
    "data: {\"choices\":[{\"delta\":{\"role\":\"assistant\"}}]}",
    "data: {\"choices\":[]}",
    "data: {\"choices\":[{\"del",
    "data: 5" }

\* str(e) of the requests.exceptions.RequestException the upstream raises.
RequestErrors == { "timed out" }

\* message['content'] of a blocking (non-streamed) response.
BlockingReplies == { "Hello" }

\* ------------------------------------------------------------------- state
VARIABLES
  STREAM_ENABLED,  \* the module's streaming toggle
  caller_state,    \* the state object the caller holds between turns
  turn,            \* number of turns started
  args,            \* the argument bag of the running turn
  pc,              \* position of the running turn in chat()
  state_payload,   \* chat(): state_payload (dict contents)
  user_inp,        \* chat(): user_inp
  messages,        \* chat(): messages
  request,         \* body of the upstream request issued in this turn
  full_text,       \* chat(): full_text
  output,          \* chat(): output of the command path
  sock,            \* chat(): sock, "None" or "socket"
  sock_state,      \* the socket: "absent", "refused", "open", "closed"
  sent,            \* payloads written to the side channel in this turn
  send_errors,     \* number of sendall calls that raised in this turn
  stream_i,        \* _stream_text(): i
  nread,           \* upstream lines read in this turn
  exc,             \* exception in flight
  e,               \* chat(): e, the exception an except block caught
  outcome,         \* "none", "returned" or "raised"
  result,          \* the object chat() returned
  catalog,         \* the module's STATIC_MODELS list
  caller_obj,      \* contents of the object the caller passed as args["state"]
  ref,             \* which objects state_payload, its history and messages are
  lines            \* lines the upstream body has yielded, where they are logged

vars == << STREAM_ENABLED, caller_state, turn, args, pc, state_payload,
           user_inp, messages, request, full_text, output, sock, sock_state,
           sent, send_errors, stream_i, nread, exc, e, outcome, result,
           catalog, caller_obj, ref, lines >>

NoExc == [type |-> "", msg |-> ""]
Exc(type, msg) == [type |-> type, msg |-> msg]
NoRequest == [issued |-> FALSE]
NoResult == [output |-> "", streaming |-> FALSE, state |-> EmptyDict]
NoRef == [state_payload |-> "", history |-> "", messages |-> ""]
NoArgs == [input |-> "", state |-> Absent, STREAM_HOST |-> "", STREAM_PORT |-> 0]

\* The state before the first call, whatever the catalog.
InitCatalog ==
  /\ STREAM_ENABLED \in BOOLEAN
  /\ caller_state \in CallerStates
  /\ turn = 0
  /\ args = NoArgs
  /\ pc = "idle"
  /\ state_payload = EmptyDict
  /\ user_inp = ""
  /\ messages = <<>>
  /\ request = NoRequest
  /\ full_text = ""
  /\ output = ""
  /\ sock = "None"
  /\ sock_state = "absent"
  /\ sent = <<>>
  /\ send_errors = 0
  /\ stream_i = 0
  /\ nread = 0
  /\ exc = NoExc
  /\ e = NoExc
  /\ outcome = "none"
  /\ result = NoResult
  /\ catalog \in Catalogs
  /\ caller_obj = Absent
  /\ ref = NoRef
  /\ lines = <<>>

Init == InitCatalog /\ catalog = STATIC_MODELS

\* ------------------------------------------------- chat(): state decoding
\* args.get("state", {})
StateInput(a) == IF a.state.t = "absent" THEN PyDict(EmptyDict) ELSE a.state

\* json.loads of a string state ({} on JSONDecodeError), a copy of a dict,
\* {} for anything else.
DecodeState(state_input) ==
  IF state_input.t = "str"
  THEN IF json_loads(state_input.s).ok
       THEN json_loads(state_input.s).val
       ELSE PyDict(EmptyDict)
  ELSE IF state_input.t = "dict" THEN state_input ELSE PyDict(EmptyDict)

WithDefault(d, key, val) ==
  [k \in DOMAIN d \cup {key} |-> IF k \in DOMAIN d THEN d[k] ELSE val]

\* if "model" not in state_payload: ...; if "history" not in state_payload: ...
\* A decoded value that is not a dict makes the membership test or the item
\* assignment raise TypeError.
EnsureFields(payload) ==
  IF payload.t = "dict"
  THEN [raises |-> FALSE,
        d |-> WithDefault(WithDefault(payload.d, "model", PyStr(DEFAULT_MODEL)),
                          "history", <<>>),
        msg |-> ""]
  ELSE IF payload.t = "list"
  THEN [raises |-> TRUE, d |-> EmptyDict,
        msg |-> "list indices must be integers or slices, not str"]
  ELSE IF payload.t = "int"
  THEN [raises |-> TRUE, d |-> EmptyDict,
        msg |-> "argument of type 'int' is not iterable"]
  ELSE [raises |-> TRUE, d |-> EmptyDict,
        msg |-> "argument of type 'NoneType' is not iterable"]

usage ==
  "Welcome to the assistant.\n"
  \o "Type @ to list curated models.\n"
  \o "Type @<prefix> to select one (default: " \o DEFAULT_MODEL \o ").\n"

\* A turn that starts its messages afresh instead of from a copy of the history.
PrepareMessages_nohistory(history, inp) == << Msg("user", inp) >>

\* messages = state_payload["history"].copy(); messages.append(user message)
PrepareMessages(history, inp) == Append(history, Msg("user", inp))

\* {"output": ..., "streaming": ..., "state": state_payload}
Result(text, streaming, st) ==
  [output |-> text, streaming |-> streaming, state |-> st]

\* ------------------------------------------------------------- the call
\* An input that takes the chat path.
IsChatInput(inp) == Strip(inp) # "" /\ ~StartsWith(Strip(inp), "@")

\* The history a turn starts from: that of the decoded, defaulted state.
HistoryOf(st) ==
  LET ef == EnsureFields(DecodeState(IF st.t = "absent" THEN PyDict(EmptyDict) ELSE st))
  IN IF ef.raises THEN <<>> ELSE ef.d.history

\* The caller starts a turn: chat(args) with the state it holds.  A chat
\* input is given only while the history is shorter than MaxHistory.
StartTurn(inputs) ==
  /\ turn < MaxTurns
  /\ turn' = turn + 1
  /\ \E inp \in inputs, cfg \in SockConfigs :
       /\ IsChatInput(inp) => Len(HistoryOf(caller_state)) < MaxHistory
       /\ args' = [input |-> inp, state |-> caller_state,
                   STREAM_HOST |-> cfg.STREAM_HOST, STREAM_PORT |-> cfg.STREAM_PORT]
  /\ pc' = "enter"
  /\ state_payload' = EmptyDict
  /\ user_inp' = ""
  /\ messages' = <<>>
  /\ request' = NoRequest
  /\ full_text' = ""
  /\ output' = ""
  /\ sock' = "None"
  /\ sock_state' = "absent"
  /\ sent' = <<>>
  /\ send_errors' = 0
  /\ stream_i' = 0
  /\ nread' = 0
  /\ exc' = NoExc
  /\ outcome' = "none"
  /\ e' = NoExc
  /\ result' = NoResult
  /\ caller_obj' = caller_state
  /\ ref' = NoRef
  /\ lines' = <<>>
  /\ UNCHANGED << STREAM_ENABLED, caller_state, catalog >>

Call ==
  /\ pc = "idle"
  /\ StartTurn(Inputs)

\* A call with one of the '@' commands.
CallCommand ==
  /\ pc = "idle"
  /\ StartTurn({ inp \in Inputs : StartsWith(Strip(inp), "@") })

\* ------------------------------------------------------ object identity
\* The objects of a turn: "D_caller" is the dict the caller passed and
\* "L_caller" the history list it holds; "D_fresh" and "L_fresh" are the dict
\* and the list that decoding and defaulting create.

\* The state dict used without copying it.
DictCopy_same(obj) == obj

\* state_input.copy(): a new dict
DictCopy(obj) == "D_copy"

\* state_payload["history"].copy(): a new list
ListCopy(obj) == "L_copy"

\* The dict state_payload is after decoding: a copy of the caller's dict, or
\* a dict made by json.loads or by the {} default.
PayloadObject(a) ==
  IF a.state.t = "dict" THEN DictCopy("D_caller") ELSE "D_fresh"

\* The list state_payload["history"] is after defaulting: a shallow copy
\* shares the caller's list.
HistoryObject(a) ==
  IF a.state.t = "dict" /\ "history" \in DOMAIN a.state.d
  THEN "L_caller" ELSE "L_fresh"

\* What the caller's object holds once state_payload holds sp and messages
\* holds msgs, r telling which objects these are.
CallerSees(r, sp, msgs, obj) ==
  IF r.state_payload = "D_caller" THEN PyDict(sp)
  ELSE IF r.messages = "L_caller" THEN [obj EXCEPT !.d.history = msgs]
  ELSE obj

\* ---------------------------------------------------------- chat(): entry
Enter ==
  /\ pc = "enter"
  /\ LET ef  == EnsureFields(DecodeState(StateInput(args)))
         inp == Strip(args.input)
         r0  == [state_payload |-> PayloadObject(args),
                 history |-> HistoryObject(args), messages |-> ""]
     IN IF ef.raises
        THEN /\ pc' = "done"
             /\ outcome' = "raised"
             /\ exc' = Exc("TypeError", ef.msg)
             /\ UNCHANGED << state_payload, user_inp, messages, result,
                             caller_obj, ref >>
        ELSE /\ user_inp' = inp
             /\ exc' = exc
             /\ IF inp = ""
                THEN /\ result' = Result(usage, TRUE, ef.d)
                     /\ outcome' = "returned"
                     /\ pc' = "done"
                     /\ messages' = messages
                     /\ state_payload' = ef.d
                     /\ ref' = r0
                ELSE IF StartsWith(inp, "@")
                THEN /\ pc' = "cmd_open"
                     /\ state_payload' = ef.d
                     /\ ref' = r0
                     /\ UNCHANGED << result, outcome, messages >>
                ELSE /\ messages' = PrepareMessages(ef.d.history, inp)
                     /\ ref' = [r0 EXCEPT !.messages = ListCopy(r0.history)]
                     /\ state_payload' =
                          IF ref'.messages = ref'.history
                          THEN [ef.d EXCEPT !.history = messages']
                          ELSE ef.d
                     /\ pc' = "chat_open"
                     /\ UNCHANGED << result, outcome >>
             /\ caller_obj' = CallerSees(ref', state_payload', messages', caller_obj)
  /\ UNCHANGED << catalog, lines >>
  /\ UNCHANGED << STREAM_ENABLED, e, caller_state, turn, args, request, full_text,
                  output, sock, sock_state, sent, send_errors, stream_i, nread >>

\* ------------------------------------------------------- socket helpers
\* sock = _open_socket(args) if STREAM_ENABLED else None, then go to next.
\* connect() either succeeds or raises out of chat().
open_socket(next) ==
  IF ~STREAM_ENABLED \/ Strip(args.STREAM_HOST) = "" \/ args.STREAM_PORT = 0
  THEN /\ sock' = "None"
       /\ pc' = next
       /\ UNCHANGED << sock_state, exc, outcome >>
  ELSE \/ /\ sock' = "socket"
          /\ sock_state' = "open"
          /\ pc' = next
          /\ UNCHANGED << exc, outcome >>
       \/ /\ sock' = sock
          /\ sock_state' = "refused"
          /\ exc' = Exc("ConnectionRefusedError", "[Errno 111] Connection refused")
          /\ outcome' = "raised"
          /\ pc' = "done"

\* _close_socket(sock): closing None raises inside and is swallowed.
close_socket == sock_state' = IF sock = "None" THEN sock_state ELSE "closed"

\* A delta written under the key of the state snapshot.
OutputPayload_statekey(chunk) == [state |-> chunk]

StatePayload(st) == [state |-> st]
OutputPayload(chunk) == [output |-> chunk]

\* _send(sock, payload) when sendall succeeds
send_ok(payload) ==
  /\ sock # "None"
  /\ sent' = Append(sent, payload)
  /\ send_errors' = send_errors

\* _send(sock, payload) when sendall raises
send_fail ==
  /\ sock # "None"
  /\ sent' = sent
  /\ send_errors' = send_errors + 1

\* _send(None, payload)
send_none ==
  /\ sock = "None"
  /\ UNCHANGED << sent, send_errors >>

SendError == Exc("BrokenPipeError", "[Errno 32] Broken pipe")

\* -------------------------------------------------- chat(): command path
\* A selection that takes the first of several matching entries.
CommandResult_firstmatch(inp, st) ==
  LET prefix == Lower(SubSeq(inp, 2, Len(inp)))
      matched_models == MatchModels(catalog, prefix)
  IN IF inp = "@" \/ matched_models = <<>>
     THEN [output |-> "", state |-> st]
     ELSE [output |-> "Model updated to: " \o matched_models[1],
           state |-> [st EXCEPT !.model = PyStr(matched_models[1])]]

\* The branches of the '@' commands: list, no match, several matches, select.
CommandResult(inp, st) ==
  IF inp = "@"
  THEN [output |-> "Available models:\n" \o JoinLines(catalog)
                   \o "\n\nCurrent model: " \o Str(st.model),
        state |-> st]
  ELSE LET prefix == Lower(SubSeq(inp, 2, Len(inp)))
           matched_models == MatchModels(catalog, prefix)
       IN IF matched_models = <<>>
          THEN [output |-> "No model found with prefix '" \o prefix
                           \o "'. Current model remains: " \o Str(st.model),
                state |-> st]
          ELSE IF Len(matched_models) > 1
          THEN [output |-> "Multiple models match prefix '" \o prefix \o "':\n"
                           \o JoinLines(matched_models),
                state |-> st]
          ELSE [output |-> "Model updated to: " \o matched_models[1],
                state |-> [st EXCEPT !.model = PyStr(matched_models[1])]]

\* sock = _open_socket(args) if STREAM_ENABLED else None   (command path)
CmdOpen ==
  /\ pc = "cmd_open"
  /\ open_socket("cmd_exec")
  /\ UNCHANGED << catalog, lines, caller_obj, ref >>
  /\ UNCHANGED << STREAM_ENABLED, e, caller_state, turn, args, state_payload,
                  user_inp, messages, request, full_text, output, sent,
                  send_errors, stream_i, nread, result >>

\* Computes output and the new state; with streaming off it returns at once.
CmdExec ==
  /\ pc = "cmd_exec"
  /\ LET r == CommandResult(user_inp, state_payload)
     IN /\ output' = r.output
        /\ state_payload' = r.state
        /\ caller_obj' = CallerSees(ref, r.state, messages, caller_obj)
        /\ IF STREAM_ENABLED
           THEN /\ pc' = "cmd_send_state"
                /\ UNCHANGED << result, outcome >>
           ELSE /\ result' = Result(r.output, STREAM_ENABLED, r.state)
                /\ outcome' = "returned"
                /\ pc' = "done"
  /\ UNCHANGED << catalog, lines, ref >>
  /\ UNCHANGED << STREAM_ENABLED, e, caller_state, turn, args, user_inp, messages,
                  request, full_text, sock, sock_state, sent, send_errors,
                  stream_i, nread, exc >>

\* _send(sock, {"state": state_payload}) of the command path: a failing
\* sendall raises out of chat().
CmdSendState ==
  /\ pc = "cmd_send_state"
  /\ \/ /\ send_none
        /\ pc' = "cmd_stream"
        /\ UNCHANGED << exc, outcome >>
     \/ /\ send_ok(StatePayload(state_payload))
        /\ pc' = "cmd_stream"
        /\ UNCHANGED << exc, outcome >>
     \/ /\ send_fail
        /\ exc' = SendError
        /\ outcome' = "raised"
        /\ pc' = "done"
  /\ stream_i' = 0
  /\ UNCHANGED << catalog, lines, caller_obj, ref >>
  /\ UNCHANGED << STREAM_ENABLED, e, caller_state, turn, args, state_payload,
                  user_inp, messages, request, full_text, output, sock,
                  sock_state, nread, result >>

\* A slice that runs to the end of the text.
Chunk_unbounded(text, i) == SubSeq(text, i + 1, Len(text))

\* text[i:i+chunk_size]
Chunk(text, i) ==
  SubSeq(text, i + 1, IF i + chunk_size < Len(text) THEN i + chunk_size ELSE Len(text))

\* The values of i in range(0, len(text), chunk_size), as 1..RangeLen(text)
RangeLen(text) == (Len(text) + chunk_size - 1) \div chunk_size

\* The payloads of the first n iterations of the loop of _stream_text
SlicePayloads(text, n) ==
  [j \in 1..n |-> OutputPayload(Chunk(text, (j - 1) * chunk_size))]

\* _stream_text(sock, text): returns at once without a socket, otherwise
\* sends the slices in order, to the last one or to the first send that
\* fails.  Runs for the command output (a failing send raises out of chat())
\* and for the error text of the except blocks (a failing send raises
\* through the finally block).
StreamText ==
  /\ pc \in {"cmd_stream", "err_stream"}
  /\ LET text == IF pc = "cmd_stream" THEN output ELSE full_text
         after == IF pc = "cmd_stream" THEN "cmd_close" ELSE "finally"
     IN \/ /\ send_none
           /\ pc' = after
           /\ UNCHANGED << stream_i, exc, outcome >>
        \/ /\ sock # "None"
           /\ sent' = sent \o SlicePayloads(text, RangeLen(text))
           /\ send_errors' = send_errors
           /\ stream_i' = chunk_size * RangeLen(text)
           /\ pc' = after
           /\ UNCHANGED << exc, outcome >>
        \/ /\ sock # "None"
           /\ \E j \in 1..RangeLen(text) :
                /\ sent' = sent \o SlicePayloads(text, j - 1)
                /\ stream_i' = chunk_size * (j - 1)
           /\ send_errors' = send_errors + 1
           /\ exc' = SendError
           /\ IF pc = "cmd_stream"
              THEN outcome' = "raised" /\ pc' = "done"
              ELSE outcome' = outcome /\ pc' = "finally"
  /\ UNCHANGED << catalog, lines, caller_obj, ref >>
  /\ UNCHANGED << STREAM_ENABLED, e, caller_state, turn, args, state_payload,
                  user_inp, messages, request, full_text, output, sock,
                  sock_state, nread, result >>

\* _close_socket(sock); return {...}   (command path)
CmdClose ==
  /\ pc = "cmd_close"
  /\ close_socket
  /\ result' = Result(output, STREAM_ENABLED, state_payload)
  /\ outcome' = "returned"
  /\ pc' = "done"
  /\ UNCHANGED << catalog, lines, caller_obj, ref >>
  /\ UNCHANGED << STREAM_ENABLED, e, caller_state, turn, args, state_payload,
                  user_inp, messages, request, full_text, output, sock, sent,
                  send_errors, stream_i, nread, exc >>

\* ----------------------------------------------------- chat(): chat path
\* sock = _open_socket(args) if STREAM_ENABLED else None   (chat path)
ChatOpen ==
  /\ pc = "chat_open"
  /\ open_socket("chat_send_state")
  /\ UNCHANGED << catalog, lines, caller_obj, ref >>
  /\ UNCHANGED << STREAM_ENABLED, e, caller_state, turn, args, state_payload,
                  user_inp, messages, request, full_text, output, sent,
                  send_errors, stream_i, nread, result >>

\* _send(sock, {"state": state_payload}) ahead of the try block: a failing
\* sendall raises out of chat().
ChatSendState ==
  /\ pc = "chat_send_state"
  /\ \/ /\ send_none
        /\ pc' = "post"
        /\ UNCHANGED << exc, outcome >>
     \/ /\ send_ok(StatePayload(state_payload))
        /\ pc' = "post"
        /\ UNCHANGED << exc, outcome >>
     \/ /\ send_fail
        /\ exc' = SendError
        /\ outcome' = "raised"
        /\ pc' = "done"
  /\ UNCHANGED << catalog, lines, caller_obj, ref >>
  /\ UNCHANGED << STREAM_ENABLED, e, caller_state, turn, args, state_payload,
                  user_inp, messages, request, full_text, output, sock,
                  sock_state, stream_i, nread, result >>

\* data = {"model": ..., "messages": messages, "stream": True}
RequestData(st, msgs) ==
  [issued |-> TRUE, model |-> st.model, messages |-> msgs, stream |-> TRUE]

\* requests.post(..., stream=True) and raise_for_status(): the response
\* opens, or a RequestException is raised.
PostStream ==
  /\ pc = "post"
  /\ STREAM_ENABLED
  /\ request' = RequestData(state_payload, messages)
  /\ \/ pc' = "iter" /\ exc' = exc
     \/ \E msg \in RequestErrors :
          pc' = "except_req" /\ exc' = Exc("RequestException", msg)
  /\ UNCHANGED << catalog, lines, caller_obj, ref >>
  /\ UNCHANGED << STREAM_ENABLED, e, caller_state, turn, args, state_payload,
                  user_inp, messages, full_text, output, sock, sock_state,
                  sent, send_errors, stream_i, nread, outcome, result >>

\* The reply stored under the role of the user.
AppendAssistant_userrole(msgs, text) == Append(msgs, Msg("user", text))

\* messages.append(assistant message)
AppendAssistant(msgs, text) == Append(msgs, Msg("assistant", text))

\* The non-streaming branch: one blocking request, the text taken from
\* result['choices'][0]['message']['content'], history updated.
PostBlocking ==
  /\ pc = "post"
  /\ ~STREAM_ENABLED
  /\ request' = RequestData(state_payload, messages)
  /\ \/ \E reply \in BlockingReplies :
          /\ full_text' = reply
          /\ messages' = AppendAssistant(messages, reply)
          /\ state_payload' =
               [state_payload EXCEPT !.history = AppendAssistant(messages, reply)]
          /\ ref' = [ref EXCEPT !.history = ref.messages]
          /\ caller_obj' = CallerSees(ref, state_payload', messages', caller_obj)
          /\ pc' = "finally"
          /\ exc' = exc
     \/ \E msg \in RequestErrors :
          /\ pc' = "except_req"
          /\ exc' = Exc("RequestException", msg)
          /\ UNCHANGED << full_text, messages, state_payload, caller_obj, ref >>
     \/ /\ pc' = "except_exc"
        /\ exc' = Exc("KeyError", "'choices'")
        /\ UNCHANGED << full_text, messages, state_payload, caller_obj, ref >>
  /\ UNCHANGED << catalog, lines >>
  /\ UNCHANGED << STREAM_ENABLED, e, caller_state, turn, args, user_inp, output,
                  sock, sock_state, sent, send_errors, stream_i, nread,
                  outcome, result >>

\* What the loop body makes of one line of the body: it skips the line,
\* leaves the loop, takes a content delta, or raises.
LineEvent(line) ==
  IF line = "" THEN [kind |-> "skip"]
  ELSE IF ~StartsWith(line, "data: ") THEN [kind |-> "skip"]
  ELSE LET data_str == SubSeq(line, 7, Len(line))
       IN IF data_str = "[DONE]" THEN [kind |-> "done"]
          ELSE IF ~json_loads(data_str).ok THEN [kind |-> "skip"]
          ELSE LET data_obj == json_loads(data_str).val
               IN IF data_obj.t \in {"int", "none"}
                  THEN [kind |-> "raise",
                        exc |-> Exc("TypeError",
                                    IF data_obj.t = "int"
                                    THEN "argument of type 'int' is not iterable"
                                    ELSE "argument of type 'NoneType' is not iterable")]
                  ELSE IF data_obj.t # "dict" THEN [kind |-> "skip"]
                  ELSE IF ~("choices" \in DOMAIN data_obj.d) THEN [kind |-> "skip"]
                  ELSE IF Len(data_obj.d.choices.l) = 0 THEN [kind |-> "skip"]
                  ELSE LET first == data_obj.d.choices.l[1].d
                           delta == IF "delta" \in DOMAIN first
                                    THEN first.delta.d ELSE EmptyDict
                       IN IF ~("content" \in DOMAIN delta) THEN [kind |-> "skip"]
                          ELSE IF delta.content.t = "str"
                          THEN [kind |-> "delta", content |-> delta.content.s]
                          ELSE [kind |-> "raise",
                                exc |-> Exc("TypeError",
                                  "can only concatenate str (not \"NoneType\") to str")]

\* The delta put in front of the accumulated text.
Accumulate_prepend(text, content) == content \o text

\* full_text += content
Accumulate(text, content) == text \o content

\* Reading on after the sentinel.
AfterSentinel_continue == "iter"

\* break: on to the statement after the loop
AfterSentinel == "update"

\* One iteration of `for line in response.iter_lines(...)`: the body yields
\* a line, ends, or fails with a RequestException.  The lines yielded are
\* kept in lines when logged.
ReadStep(logged) ==
  /\ \/ /\ nread < MaxLines
        /\ nread' = nread + 1
        /\ \E line \in UpstreamLines :
             LET ev == LineEvent(line)
             IN /\ lines' = IF logged THEN Append(lines, line) ELSE lines
                /\ CASE ev.kind = "skip" ->
                       /\ pc' = "iter"
                       /\ UNCHANGED << full_text, sent, send_errors, exc >>
                  [] ev.kind = "done" ->
                       /\ pc' = AfterSentinel
                       /\ UNCHANGED << full_text, sent, send_errors, exc >>
                  [] ev.kind = "raise" ->
                       /\ pc' = "except_exc"
                       /\ exc' = ev.exc
                       /\ UNCHANGED << full_text, sent, send_errors >>
                  [] ev.kind = "delta" ->
                       /\ full_text' = Accumulate(full_text, ev.content)
                       /\ \/ send_none /\ pc' = "iter" /\ exc' = exc
                          \/ /\ send_ok(OutputPayload(ev.content))
                             /\ pc' = "iter"
                             /\ exc' = exc
                          \/ /\ send_fail
                             /\ pc' = "except_exc"
                             /\ exc' = SendError
     \/ /\ pc' = "update"
        /\ UNCHANGED << nread, full_text, sent, send_errors, exc, lines >>
     \/ \E msg \in RequestErrors :
          /\ pc' = "except_req"
          /\ exc' = Exc("RequestException", msg)
          /\ UNCHANGED << nread, full_text, sent, send_errors, lines >>
  /\ UNCHANGED << catalog, caller_obj, ref >>
  /\ UNCHANGED << STREAM_ENABLED, e, caller_state, turn, args, state_payload,
                  user_inp, messages, request, output, sock, sock_state,
                  stream_i, outcome, result >>

ReadLine ==
  /\ pc = "iter"
  /\ ReadStep(FALSE)

\* The same iteration, the line it yields logged.
ReadLineLogged ==
  /\ pc = "iter"
  /\ ReadStep(TRUE)

\* messages.append(assistant message); state_payload["history"] = messages
UpdateHistory ==
  /\ pc = "update"
  /\ messages' = AppendAssistant(messages, full_text)
  /\ state_payload' =
       [state_payload EXCEPT !.history = AppendAssistant(messages, full_text)]
  /\ ref' = [ref EXCEPT !.history = ref.messages]
  /\ caller_obj' = CallerSees(ref, state_payload', messages', caller_obj)
  /\ pc' = "finally"
  /\ UNCHANGED << catalog, lines >>
  /\ UNCHANGED << STREAM_ENABLED, e, caller_state, turn, args, user_inp, request,
                  full_text, output, sock, sock_state, sent, send_errors,
                  stream_i, nread, exc, outcome, result >>

\* except requests.exceptions.RequestException as e
ExceptRequest ==
  /\ pc = "except_req"
  /\ full_text' = "API request failed: " \o exc.msg
  /\ e' = exc
  /\ exc' = NoExc
  /\ stream_i' = 0
  /\ pc' = IF STREAM_ENABLED THEN "err_stream" ELSE "finally"
  /\ UNCHANGED << catalog, lines, caller_obj, ref >>
  /\ UNCHANGED << STREAM_ENABLED, caller_state, turn, args, state_payload,
                  user_inp, messages, request, output, sock, sock_state, sent,
                  send_errors, nread, outcome, result >>

\* except Exception as e
ExceptOther ==
  /\ pc = "except_exc"
  /\ full_text' = "An error occurred: " \o exc.msg
  /\ e' = exc
  /\ exc' = NoExc
  /\ stream_i' = 0
  /\ pc' = IF STREAM_ENABLED THEN "err_stream" ELSE "finally"
  /\ UNCHANGED << catalog, lines, caller_obj, ref >>
  /\ UNCHANGED << STREAM_ENABLED, caller_state, turn, args, state_payload,
                  user_inp, messages, request, output, sock, sock_state, sent,
                  send_errors, nread, outcome, result >>

\* finally: _close_socket(sock) when streaming; then the exception in flight
\* propagates, or chat() returns.
Finally ==
  /\ pc = "finally"
  /\ IF STREAM_ENABLED THEN close_socket ELSE sock_state' = sock_state
  /\ IF exc # NoExc
     THEN outcome' = "raised" /\ result' = result
     ELSE outcome' = "returned"
          /\ result' = Result(full_text, STREAM_ENABLED, state_payload)
  /\ pc' = "done"
  /\ UNCHANGED << catalog, lines, caller_obj, ref >>
  /\ UNCHANGED << STREAM_ENABLED, e, caller_state, turn, args, state_payload,
                  user_inp, messages, request, full_text, output, sock, sent,
                  send_errors, stream_i, nread, exc >>

\* ------------------------------------------------------------- the caller
\* The caller keeps the state a turn returned; a turn that raised returns
\* nothing and the caller keeps the state it had.  The call is over: its
\* local variables are gone, the caller has what it passed and what it got.
Store ==
  /\ pc = "done"
  /\ pc' = "idle"
  /\ caller_state' = IF outcome = "returned" THEN PyDict(result.state)
                     ELSE caller_state
  /\ state_payload' = EmptyDict
  /\ user_inp' = ""
  /\ messages' = <<>>
  /\ request' = NoRequest
  /\ full_text' = ""
  /\ output' = ""
  /\ sock' = "None"
  /\ sock_state' = "absent"
  /\ sent' = <<>>
  /\ send_errors' = 0
  /\ stream_i' = 0
  /\ nread' = 0
  /\ exc' = NoExc
  /\ e' = NoExc
  /\ ref' = NoRef
  /\ lines' = <<>>
  /\ UNCHANGED << STREAM_ENABLED, turn, args, outcome, result, catalog, caller_obj >>

Next ==
  \/ Call
  \/ Enter
  \/ CmdOpen
  \/ CmdExec
  \/ CmdSendState
  \/ StreamText
  \/ CmdClose
  \/ ChatOpen
  \/ ChatSendState
  \/ PostStream
  \/ PostBlocking
  \/ ReadLine
  \/ UpdateHistory
  \/ ExceptRequest
  \/ ExceptOther
  \/ Finally
  \/ Store

Spec == Init /\ [][Next]_vars

\* The '@' commands alone, over every catalog of Catalogs.
NextCatalog ==
  \/ CallCommand
  \/ Enter
  \/ CmdOpen
  \/ CmdExec
  \/ CmdSendState
  \/ StreamText
  \/ CmdClose
  \/ Store

SpecCatalog == InitCatalog /\ [][NextCatalog]_vars

\* One streaming chat turn whose upstream lines are logged.
InitStream ==
  /\ Init
  /\ STREAM_ENABLED
  /\ caller_state = Absent

CallChat ==
  /\ pc = "idle"
  /\ turn = 0
  /\ StartTurn({ inp \in Inputs : IsChatInput(inp) })

NextStream ==
  \/ CallChat
  \/ Enter
  \/ ChatOpen
  \/ ChatSendState
  \/ PostStream
  \/ ReadLineLogged
  \/ UpdateHistory
  \/ ExceptRequest
  \/ ExceptOther
  \/ StreamText
  \/ Finally

SpecStream == InitStream /\ [][NextStream]_vars

\* chat() is sequential code: a statement that is reached is executed, and
\* a read of the body yields a line, ends or fails.
FairStream == SpecStream /\ WF_vars(NextStream)

\* ================================================================ claims
InputHistory == HistoryOf(args.state)

IsPrefix(a, b) == Len(a) <= Len(b) /\ SubSeq(b, 1, Len(a)) = a

IsStateMsg(m) == "state" \in DOMAIN m
IsOutputMsg(m) == "output" \in DOMAIN m

\* Concatenation of the {output: chunk} payloads of a log, in order.
RECURSIVE ConcatOutputs(_)
ConcatOutputs(log) ==
  IF log = <<>> THEN ""
  ELSE IF IsOutputMsg(log[1]) THEN log[1].output \o ConcatOutputs(Tail(log))
  ELSE ConcatOutputs(Tail(log))

OnCommandPath == StartsWith(user_inp, "@")
OnChatPath == user_inp # "" /\ ~StartsWith(user_inp, "@")

\* C1: with streaming enabled, every exit of chat() that opened the side
\* channel leaves the socket closed.
C1_SocketClosedOnExit ==
  (pc = "done" /\ STREAM_ENABLED /\ sock # "None") => sock_state = "closed"

\* C2: a failing side-channel write is not fatal and does not change the
\* primary result: the turn returns, a command returns its command result,
\* and a chat turn's output is not made of the write error.
C2_WriteFailureNonFatal ==
  (pc = "done" /\ send_errors > 0) =>
     /\ outcome = "returned"
     /\ OnCommandPath =>
          /\ result.output = output
          /\ result.state = state_payload
     /\ OnChatPath => result.output # "An error occurred: " \o SendError.msg

\* C3: a refused side-channel connection is swallowed: chat() returns a
\* normal result, never an exception.
C3_ConnectFailureSwallowed ==
  (pc = "done" /\ sock_state = "refused") => outcome = "returned"

\* C4: in a streaming chat turn with an open side channel, the relayed
\* {output: chunk} payloads concatenate, in emission order, to the
\* accumulated text while the body is read, and to the returned output when
\* the turn completes normally.
C4_RelayedDeltasEqualOutput ==
  /\ (pc \in {"iter", "update"} /\ sock # "None") =>
        ConcatOutputs(sent) = full_text
  /\ (pc = "done" /\ outcome = "returned" /\ OnChatPath /\ STREAM_ENABLED
        /\ sock # "None" /\ e = NoExc) =>
        ConcatOutputs(sent) = result.output

C4_Witness ==
  /\ pc = "done" /\ outcome = "returned" /\ OnChatPath /\ STREAM_ENABLED
  /\ sock # "None" /\ e = NoExc
  /\ result.output = "Hello"
  /\ Len(sent) = 3

\* C5: the side channel of a turn carries exactly one {state: ...} message,
\* ahead of every {output: ...} message, and on the chat path it is written
\* before the upstream request is issued.
C5_OneStateSnapshotFirst ==
  /\ sent # <<>> =>
       /\ IsStateMsg(sent[1])
       /\ \A i \in 2..Len(sent) : IsOutputMsg(sent[i]) /\ ~IsStateMsg(sent[i])
  /\ (request.issued /\ sock # "None") => sent # <<>>

C5_Witness ==
  /\ pc = "done" /\ request.issued /\ nread > 0
  /\ Len(sent) >= 3
  /\ IsStateMsg(sent[1]) /\ IsOutputMsg(sent[2])

\* C6: when the upstream request fails, chat() returns normally, the output
\* describes the error and the returned history is the input history.
C6_UpstreamFailureReturnsError ==
  (pc = "done" /\ e.type = "RequestException") =>
     /\ outcome = "returned"
     /\ StartsWith(result.output, "API request failed: ")
     /\ result.state.history = InputHistory

\* C7: a chat turn that completes normally returns the input history followed
\* by the user message with the trimmed input and the assistant message
\* with the returned output.
C7_HistoryGrowsByUserThenAssistant ==
  (pc = "done" /\ outcome = "returned" /\ OnChatPath /\ e = NoExc) =>
     result.state.history =
       InputHistory \o << Msg("user", Strip(args.input)),
                          Msg("assistant", result.output) >>

C7_Witness ==
  /\ pc = "done" /\ outcome = "returned" /\ OnChatPath /\ e = NoExc
  /\ STREAM_ENABLED
  /\ args.input # Strip(args.input)
  /\ Len(InputHistory) = 2
  /\ result.output = "Hello"
  /\ Len(result.state.history) = 4

\* C8: across turns fed with the state the previous turn returned, the
\* history only grows at its end: the history of the state the caller passed
\* in is a prefix of the history of the state a turn returns, which is the
\* state the caller passes to the next turn.
C8_HistoryAppendOnly ==
  /\ pc \notin {"idle", "done"} => args.state = caller_state
  /\ (pc = "done" /\ outcome = "returned") =>
        IsPrefix(HistoryOf(caller_state), result.state.history)
  /\ (pc = "idle" /\ turn > 0 /\ outcome = "returned") =>
        /\ caller_state = PyDict(result.state)
        /\ IsPrefix(InputHistory, HistoryOf(caller_state))

C8_Witness ==
  /\ pc = "idle" /\ turn = 2
  /\ Len(HistoryOf(caller_state)) = 4
  /\ HistoryOf(caller_state)[1] = Msg("user", "hi")
  /\ HistoryOf(caller_state)[2] = Msg("assistant", "Hello")
  /\ HistoryOf(caller_state)[3] = Msg("user", "hi")

\* C9: the state every turn returns has a model that is a non-empty string.
C9_ModelNonEmptyString ==
  (pc = "done" /\ outcome = "returned") =>
     /\ result.state.model.t = "str"
     /\ result.state.model.s # ""

\* A state argument that is absent or invalid: not a dict, not JSON, or JSON
\* of something other than an object.
InvalidStateArg ==
  \/ args.state.t \notin {"dict", "str"}
  \/ /\ args.state.t = "str"
     /\ \/ ~json_loads(args.state.s).ok
        \/ json_loads(args.state.s).val.t # "dict"

\* C10: an absent or invalid state argument is treated as an empty object:
\* the turn goes on with the default model and an empty history.
C10_InvalidStateTreatedAsEmpty ==
  [][(pc = "enter" /\ InvalidStateArg) =>
       /\ outcome' # "raised"
       /\ state_payload' = [model |-> PyStr(DEFAULT_MODEL), history |-> <<>>]]_vars

\* The state a turn starts from: the caller's state decoded, absent fields
\* defaulted.
DefaultedInput == EnsureFields(DecodeState(StateInput(args))).d

\* The catalog entries equal in full, ignoring case, to the text.
ExactMatches(text) ==
  { i \in 1..Len(catalog) : Lower(catalog[i]) = Lower(text) }

C12_NoSelectionLeavesState ==
  (/\ pc = "done"
   /\ outcome = "returned"
   /\ OnCommandPath
   /\ \/ user_inp = "@"
      \/ Cardinality(ExactMatches(SubSeq(user_inp, 2, Len(user_inp)))) # 1) =>
    /\ result.state.model = DefaultedInput.model
    /\ result.state.history = DefaultedInput.history

C12_Witness ==
  /\ pc = "done"
  /\ outcome = "returned"
  /\ OnCommandPath
  /\ Cardinality(ExactMatches(SubSeq(user_inp, 2, Len(user_inp)))) > 1
  /\ StartsWith(result.output, "Multiple models match")
  /\ DefaultedInput.history # <<>>
  /\ result.state = DefaultedInput

\* Text that is empty or holds whitespace only.
IsBlank(text) == \A i \in 1..Len(text) : SubSeq(text, i, i) \in Whitespace

C14_CallerStateNotMutated == caller_obj = args.state

C14_Witness ==
  /\ pc = "done"
  /\ outcome = "returned"
  /\ OnChatPath
  /\ e = NoExc
  /\ args.state.t = "dict" /\ DOMAIN args.state.d = {"history"}
  /\ ref = [state_payload |-> "D_copy", history |-> "L_copy", messages |-> "L_copy"]
  /\ Len(result.state.history) = Len(PriorHistory) + 2
  /\ caller_obj = [t |-> "dict", d |-> [history |-> PriorHistory]]

\* The sentinel line and the text each content frame of UpstreamLines
\* carries.
Sentinel == "data: [DONE]"

FrameText(line) ==
  CASE line = "data: {\"choices\":[{\"delta\":{\"content\":\"Hel\"}}]}" -> "Hel"
    [] line = "data: {\"choices\":[{\"delta\":{\"content\":\"lo\"}}]}" -> "lo"
    [] OTHER -> ""

\* The text the frames of a sequence of lines carry, in order.
RECURSIVE TextOf(_)
TextOf(seq) ==
  IF seq = <<>> THEN "" ELSE FrameText(seq[1]) \o TextOf(Tail(seq))

\* C15: the sentinel line is the last line a turn reads; once it is read the
\* turn is past the loop with no exception, the accumulated text and the
\* relayed deltas are those of the lines before the sentinel, and the turn
\* returns that text.
C15_NothingReadAfterSentinel ==
  /\ \A i \in 1..Len(lines) : lines[i] = Sentinel => i = Len(lines)
  /\ (lines # <<>> /\ lines[Len(lines)] = Sentinel) =>
       /\ pc \in {"update", "finally", "done"}
       /\ exc = NoExc /\ e = NoExc
       /\ full_text = TextOf(SubSeq(lines, 1, Len(lines) - 1))
       /\ sock # "None" => ConcatOutputs(sent) = full_text
       /\ pc = "done" => outcome = "returned" /\ result.output = full_text

C15_Witness ==
  /\ pc = "done"
  /\ outcome = "returned"
  /\ sock # "None"
  /\ Len(lines) = 3
  /\ FrameText(lines[1]) = "Hel"
  /\ FrameText(lines[2]) = "lo"
  /\ lines[3] = Sentinel
  /\ result.output = "Hello"

\* The 'data: ' lines of UpstreamLines whose payload is not a well-formed
\* JSON object of the expected shape: cut short, not an object, no choice.
MalformedLines ==
  { "data: {\"choices\":[{\"del",
    "data: 5",
    "data: {\"choices\":[]}" }

RemoveMalformed(seq) == SelectSeq(seq, LAMBDA l : l \notin MalformedLines)

\* C16: the loop goes on after a malformed frame with no exception raised,
\* and while the body is read the accumulated text and the relayed deltas
\* are those of the lines read with the malformed frames removed.
C16_MalformedFrameDropped ==
  /\ (pc \in {"iter", "except_exc"} /\ lines # <<>>
        /\ lines[Len(lines)] \in MalformedLines) =>
       pc = "iter" /\ exc = NoExc
  /\ pc \in {"iter", "update"} =>
       /\ full_text = TextOf(RemoveMalformed(lines))
       /\ sock # "None" => ConcatOutputs(sent) = TextOf(RemoveMalformed(lines))

\* The frames of UpstreamLines that parse and whose first choice has no
\* content, empty content or null content.
NoContentLines ==
  { "data: {\"choices\":[{\"delta\":{\"role\":\"assistant\"}}]}",
    "data: {\"choices\":[{\"delta\":{\"content\":\"\"}}]}",
    "data: {\"choices\":[{\"delta\":{\"content\":null}}]}" }

\* The non-empty texts the frames of a sequence of lines carry, in order.
RECURSIVE Deltas(_)
Deltas(seq) ==
  IF seq = <<>> THEN <<>>
  ELSE IF FrameText(seq[1]) # "" THEN <<FrameText(seq[1])>> \o Deltas(Tail(seq))
  ELSE Deltas(Tail(seq))

\* The chunks of the {output: chunk} payloads of a log, in order.
RECURSIVE Outputs(_)
Outputs(log) ==
  IF log = <<>> THEN <<>>
  ELSE IF IsOutputMsg(log[1]) THEN <<log[1].output>> \o Outputs(Tail(log))
  ELSE Outputs(Tail(log))

\* C17: the loop goes on after a frame without content, with empty content
\* or with null content, no exception raised; while the body is read the
\* side channel has received one message per frame with non-empty content
\* and no other, and the accumulated text is that of those frames.
C17_OnlyNonEmptyContentEmitted ==
  /\ (pc \in {"iter", "except_exc"} /\ lines # <<>>
        /\ lines[Len(lines)] \in NoContentLines) =>
       pc = "iter" /\ exc = NoExc
  /\ (pc \in {"iter", "update"} /\ sock # "None") =>
       Outputs(sent) = Deltas(lines)
  /\ pc \in {"iter", "update"} => full_text = TextOf(lines)

\* The number of slices of chunk_size characters a text is cut into.
SliceCount(text) == (Len(text) + chunk_size - 1) \div chunk_size

\* C18: when a command turn, or a chat turn whose upstream request failed,
\* returns with the side channel open, the last messages written are
\* {output: slice} messages, one per slice of the returned output: each is
\* non-empty and at most chunk_size characters long, each but the last is
\* exactly chunk_size long, and in order they concatenate to the output.
C18_TextSentInSlices ==
  (/\ pc = "done"
   /\ outcome = "returned"
   /\ sock # "None"
   /\ OnCommandPath \/ e.type = "RequestException") =>
    LET n == SliceCount(result.output)
        k == Len(sent) - n
    IN /\ k >= 1
       /\ \A i \in (k + 1)..Len(sent) :
            /\ IsOutputMsg(sent[i])
            /\ Len(sent[i].output) >= 1
            /\ Len(sent[i].output) <= chunk_size
            /\ i < Len(sent) => Len(sent[i].output) = chunk_size
       /\ ConcatOutputs(SubSeq(sent, k + 1, Len(sent))) = result.output

C18_Witness ==
  /\ pc = "done"
  /\ outcome = "returned"
  /\ sock # "None"
  /\ e.type = "RequestException"
  /\ result.output = "API request failed: timed out"
  /\ Len(sent) = 5
  /\ IsOutputMsg(sent[2]) /\ sent[2].output = "Hel"
  /\ sent[5] = [output |-> "timed out"]

\* C19: the stream flag of the request body is the streaming mode; with
\* streaming off a chat turn has no side channel, and a turn that completes
\* returns the text of the one response and appends it to the history.
C19_StreamFlagMatchesMode ==
  /\ request.issued => request.stream = STREAM_ENABLED
  /\ (~STREAM_ENABLED /\ pc # "idle") =>
       sock = "None" /\ sock_state = "absent" /\ sent = <<>>
  /\ (~STREAM_ENABLED /\ pc = "done" /\ outcome = "returned" /\ OnChatPath
        /\ e = NoExc) =>
       /\ request.issued
       /\ result.output \in BlockingReplies
       /\ result.state.history =
            Append(Append(InputHistory, Msg("user", user_inp)),
                   Msg("assistant", result.output))

\* A chat turn that has issued its request leaves the loop and reaches the
\* end of chat() with the side channel released.
TurnTerminates ==
  (pc = "post") ~> (pc = "done" /\ sock_state # "open")

\* C20: every line the body yields is processed once and none after the
\* sentinel, and a chat turn that has issued its request ends with the side
\* channel released and a result returned.
C20_TurnReachesFinalStep ==
  /\ nread = Len(lines)
  /\ pc = "iter" => \A i \in 1..Len(lines) : lines[i] # Sentinel
  /\ (pc = "done" /\ request.issued) =>
       sock_state # "open" /\ outcome = "returned"
====
